---- MODULE Spec2Model ----
(***************************************************************************)
(* A model of the two WhisperX transcription scripts of the repository:    *)
(*   "TS"  src/transcription_service.py  transcribe_audio_with_diarization *)
(*   "WX"  src/whisperx_service.py       transcribe_with_speaker_diarization*)
(* One behaviour is one process run: imports, main, the pipeline called    *)
(* from main, the print of the result and the exit.                        *)
(*                                                                         *)
(* Conventions.                                                            *)
(*  - A Python str is a sequence of tokens; " " and "\n" are the           *)
(*    whitespace tokens, every other token is a run of non-blank           *)
(*    characters.  Concatenation is \o, str.strip() is Strip.              *)
(*  - A Python dict is a function on its keys (DOMAIN d is d.keys()).      *)
(*  - A value that may be None is wrapped: None is <<>>, Some(v) is <<v>>. *)
(*  - The external collaborators (whisperx, torch, the file system, json)  *)
(*    are the environment: each call either returns one of a bounded set   *)
(*    of values or raises an exception with one of the messages ExcMsgs.   *)
(*  - Cyrillic literals of the source are transliterated.                  *)
(***************************************************************************)
EXTENDS Integers, Sequences, FiniteSets, TLC

\* Bounds of the model.
MaxSegs == 2
MaxIntervals == 2

None == <<>>
Some(v) == <<v>>

Variants == {"TS", "WX"}

\* Speaker ids as the diarization model names them.
SpeakerIds == {"SPEAKER_00", "SPEAKER_01"}

\* str(e) of a raised exception: Exception() has the empty message.
ExcMsgs == {<<>>, <<"boom">>}

\* Segment texts as the recogniser returns them: blank, plain, with a leading blank.
Texts == {<<" ">>, <<"a">>, <<" ", "b">>}

Whitespace == {" ", "\n"}

RECURSIVE LStrip(_)
LStrip(s) ==
    IF s = <<>> THEN <<>>
    ELSE IF Head(s) \in Whitespace THEN LStrip(Tail(s)) ELSE s

RECURSIVE RStrip(_)
RStrip(s) ==
    IF s = <<>> THEN <<>>
    ELSE IF s[Len(s)] \in Whitespace THEN RStrip(SubSeq(s, 1, Len(s) - 1)) ELSE s

\* str.strip()
Strip(s) == RStrip(LStrip(s))

\* dict.get(k) on a dict whose values at k are wrapped (None / Some)
Get(d, k) == IF k \in DOMAIN d THEN d[k] ELSE None

\* segment.get("speaker")
SegSpeaker(seg) == IF "speaker" \in DOMAIN seg THEN Some(seg["speaker"]) ELSE None

\* The order of sorted() on the ids ("NEIZVESTNYJ", Cyrillic in the source, sorts last).
Rank(id) ==
    CASE id = "SPEAKER_00" -> 0
      [] id = "SPEAKER_01" -> 1
      [] id = "SPEAKER_02" -> 2
      [] OTHER -> 9

RECURSIVE SortedList(_)
SortedList(S) ==
    IF S = {} THEN <<>>
    ELSE LET m == CHOOSE x \in S : \A y \in S : Rank(x) <= Rank(y)
         IN <<m>> \o SortedList(S \ {m})

(***************************************************************************)
(* transcription_service.py: step 7, the processing of the results         *)
(***************************************************************************)

\* segment.get("speaker", "НЕИЗВЕСТНЫЙ")
TSSpeaker(seg) == IF "speaker" \in DOMAIN seg THEN seg["speaker"] ELSE "NEIZVESTNYJ"

\* The loop's variables before the first segment (lines 110-117).
MergeInit ==
    [ segments_with_speakers |-> <<>>,
      speakers |-> {},
      full_text |-> <<>>,
      current_speaker |-> None,
      current_text |-> <<>>,
      segment_start |-> 0,
      segment_end |-> 0 ]

\* "Save the previous segment" (lines 133-140, and again 149-156).
MergeFlush(acc) ==
    IF acc.current_speaker # None /\ acc.current_text # <<>>
    THEN [acc EXCEPT
            !.segments_with_speakers =
                Append(@, [ speaker |-> acc.current_speaker[1],
                            text |-> Strip(acc.current_text),
                            start |-> acc.segment_start,
                            end |-> acc.segment_end ]),
            !.full_text =
                @ \o <<"\n", "[", acc.current_speaker[1], "]", ":", " ">>
                  \o Strip(acc.current_text)]
    ELSE acc

\* Faulty variant: a segment of the current speaker replaces the text gathered so far.
MergeStep_overwrite(acc, segment) ==
    LET speaker == TSSpeaker(segment)
        text == Strip(segment["text"])
        a1 == [acc EXCEPT !.speakers = @ \cup {speaker}]
    IN IF Some(speaker) = a1.current_speaker
       THEN [a1 EXCEPT !.current_text = text,
                       !.segment_end = segment["end"]]
       ELSE [MergeFlush(a1) EXCEPT !.current_speaker = Some(speaker),
                                   !.current_text = text,
                                   !.segment_start = segment["start"],
                                   !.segment_end = segment["end"]]

\* One iteration of the loop over result["segments"] (lines 119-146).
MergeStep(acc, segment) ==
    LET speaker == TSSpeaker(segment)
        text == Strip(segment["text"])
        a1 == [acc EXCEPT !.speakers = @ \cup {speaker}]
    IN IF Some(speaker) = a1.current_speaker
       THEN [a1 EXCEPT !.current_text = @ \o <<" ">> \o text,
                       !.segment_end = segment["end"]]
       ELSE [MergeFlush(a1) EXCEPT !.current_speaker = Some(speaker),
                                   !.current_text = text,
                                   !.segment_start = segment["start"],
                                   !.segment_end = segment["end"]]

RECURSIVE MergeLoop(_, _)
MergeLoop(acc, segs) ==
    IF segs = <<>> THEN acc ELSE MergeLoop(MergeStep(acc, Head(segs)), Tail(segs))

\* The whole pass with the flush of the last run (lines 110-156).
MergeSegments(segs) == MergeFlush(MergeLoop(MergeInit, segs))

\* The result of the branch "with diarization" (lines 108-174).
TSDiarizedResult(segs) ==
    LET m == MergeSegments(segs)
        speakers_list == SortedList(m.speakers)
    IN [ success |-> TRUE,
         text |-> Strip(m.full_text),
         segments |-> m.segments_with_speakers,
         speakers |-> speakers_list,
         speaker_count |-> Len(speakers_list),
         language |-> "ru",
         error |-> None ]

RECURSIVE ConcatTexts(_)
ConcatTexts(segs) ==
    IF segs = <<>> THEN <<>> ELSE Head(segs)["text"] \o ConcatTexts(Tail(segs))

\* The result of the fallback branch "without diarization" (lines 175-195).
TSFallbackResult(segs) ==
    [ success |-> TRUE,
      text |-> Strip(ConcatTexts(segs)),
      segments |-> <<>>,
      speakers |-> <<>>,
      speaker_count |-> 0,
      language |-> "ru",
      error |-> None,
      warning |-> <<"Diarizaciya", " ", "ne", " ", "udalas">> ]

\* Step 7 as a whole: "if diarize_segments:" chooses the branch (line 108).
\* diarize_segments is None (initial value, line 70) or Some(intervals).
TSAssemble(segs, diarize_segments) ==
    IF diarize_segments # None /\ diarize_segments[1] # <<>>
    THEN TSDiarizedResult(segs)
    ELSE TSFallbackResult(segs)

\* The dict returned by the handler of a diarization error (lines 89-104).
TSDiarizationErrorResult(msg) ==
    [ success |-> FALSE,
      text |-> <<>>,
      segments |-> <<>>,
      speakers |-> <<>>,
      speaker_count |-> 0,
      error |-> Some(<<"Oshibka", " ", "diarizacii:", " ">> \o msg),
      error_type |-> "Exception",
      step |-> "diarization" ]

\* The dict returned by the outermost handler (lines 204-216).
TSErrorResult(msg) ==
    [ success |-> FALSE,
      text |-> <<>>,
      segments |-> <<>>,
      speakers |-> <<>>,
      speaker_count |-> 0,
      error |-> Some(msg),
      error_type |-> "Exception" ]

(***************************************************************************)
(* whisperx_service.py: roles, result assembly, format_dialogue            *)
(***************************************************************************)

\* The set built by the loop of lines 174-177.
ObservedSpeakers(segs) ==
    { segs[i]["speaker"] : i \in { j \in 1..Len(segs) : "speaker" \in DOMAIN segs[j] } }

\* Faulty variant: with two or more speakers the client is the seller again.
ResolveRoles_sameClient(segs) ==
    LET speakers_list == SortedList(ObservedSpeakers(segs))
    IN IF Len(speakers_list) >= 2
       THEN [ seller |-> Some(speakers_list[1]),
              client |-> Some(speakers_list[1]),
              total_speakers |-> Len(speakers_list),
              all_speakers |-> speakers_list ]
       ELSE IF Len(speakers_list) = 1
       THEN [ seller |-> Some(speakers_list[1]),
              client |-> None,
              total_speakers |-> 1,
              all_speakers |-> speakers_list,
              note |-> <<"Obnaruzhen", " ", "tolko", " ", "odin", " ", "spiker">> ]
       ELSE <<>>

\* Faulty variant: the branch for a single speaker is missing.
ResolveRoles_noSingle(segs) ==
    LET speakers_list == SortedList(ObservedSpeakers(segs))
    IN IF Len(speakers_list) >= 2
       THEN [ seller |-> Some(speakers_list[1]),
              client |-> Some(speakers_list[2]),
              total_speakers |-> Len(speakers_list),
              all_speakers |-> speakers_list ]
       ELSE <<>>

\* speakers_info after a successful assignment (lines 179-196); with no
\* speaker observed it keeps its initial value {} of line 158.
ResolveRoles(segs) ==
    LET speakers_list == SortedList(ObservedSpeakers(segs))
    IN IF Len(speakers_list) >= 2
       THEN [ seller |-> Some(speakers_list[1]),
              client |-> Some(speakers_list[2]),
              total_speakers |-> Len(speakers_list),
              all_speakers |-> speakers_list ]
       ELSE IF Len(speakers_list) = 1
       THEN [ seller |-> Some(speakers_list[1]),
              client |-> None,
              total_speakers |-> 1,
              all_speakers |-> speakers_list,
              note |-> <<"Obnaruzhen", " ", "tolko", " ", "odin", " ", "spiker">> ]
       ELSE <<>>

\* speakers_info when no token was given (lines 203-205).
NoTokenInfo == [ note |-> <<"Diarizaciya", " ", "nedostupna", " ", "bez", " ", "tokena">> ]

\* speakers_info after an exception in the diarization block (lines 209-211).
DiarizeErrorInfo(msg) == [ error |-> <<"Diarizaciya", " ", "ne", " ", "udalas:", " ">> \o msg ]

\* The three accumulators of lines 214-226, before strip.
RECURSIVE CollectTexts(_, _, _)
CollectTexts(acc, segs, speakers_info) ==
    IF segs = <<>> THEN acc
    ELSE LET segment == Head(segs)
             text == Strip(segment["text"])
             speaker == SegSpeaker(segment)
             a1 == [acc EXCEPT !.full_text = @ \o text \o <<" ">>]
             a2 == IF speaker = Get(speakers_info, "seller")
                   THEN [a1 EXCEPT !.seller_text = @ \o text \o <<" ">>]
                   ELSE IF speaker = Get(speakers_info, "client")
                   THEN [a1 EXCEPT !.client_text = @ \o text \o <<" ">>]
                   ELSE a1
         IN CollectTexts(a2, Tail(segs), speakers_info)

\* The role label of one segment (lines 57-65).
SpeakerRole(speaker, seller_id, client_id) ==
    IF speaker = seller_id THEN <<"Prodavec">>
    ELSE IF speaker = client_id THEN <<"Klient">>
    ELSE IF speaker # None THEN <<"Spiker", " ", speaker[1]>>
    ELSE <<"Neizvestnyj">>

\* One iteration of format_dialogue's loop (lines 50-74).
DialogueStep(acc, segment, seller_id, client_id) ==
    LET speaker == SegSpeaker(segment)
        text == Strip(segment["text"])
        speaker_role == SpeakerRole(speaker, seller_id, client_id)
        a1 == IF acc.current_speaker # None /\ acc.current_speaker # Some(speaker_role)
                 /\ acc.current_text # <<>>
              THEN [acc EXCEPT
                      !.dialogue_lines =
                          Append(@, acc.current_speaker[1] \o <<":", " ">>
                                      \o Strip(acc.current_text)),
                      !.current_text = <<>>]
              ELSE acc
    IN IF text = <<>> THEN acc
       ELSE [a1 EXCEPT !.current_speaker = Some(speaker_role),
                       !.current_text = @ \o <<" ">> \o text]

RECURSIVE DialogueLoop(_, _, _, _)
DialogueLoop(acc, segs, seller_id, client_id) ==
    IF segs = <<>> THEN acc
    ELSE DialogueLoop(DialogueStep(acc, Head(segs), seller_id, client_id),
                      Tail(segs), seller_id, client_id)

\* "\n\n".join(lines)
RECURSIVE JoinLines(_)
JoinLines(lines) ==
    IF lines = <<>> THEN <<>>
    ELSE IF Len(lines) = 1 THEN lines[1]
    ELSE lines[1] \o <<"\n", "\n">> \o JoinLines(Tail(lines))

\* The utterance lines format_dialogue builds (lines 42-78).
DialogueLines(segments, speakers_info) ==
    LET acc == DialogueLoop([dialogue_lines |-> <<>>, current_speaker |-> None,
                             current_text |-> <<>>],
                            segments, Get(speakers_info, "seller"),
                            Get(speakers_info, "client"))
    IN IF acc.current_speaker # None /\ acc.current_text # <<>>
       THEN Append(acc.dialogue_lines,
                   acc.current_speaker[1] \o <<":", " ">> \o Strip(acc.current_text))
       ELSE acc.dialogue_lines

\* format_dialogue (lines 28-80)
format_dialogue(segments, speakers_info) ==
    IF segments = <<>> \/ DOMAIN speakers_info = {}
    THEN <<>>
    ELSE JoinLines(DialogueLines(segments, speakers_info))

\* Steps 5 and 6 and the returned dict (lines 213-252).
WXAssemble(segments_with_speakers, speakers_info) ==
    LET t == CollectTexts([full_text |-> <<>>, seller_text |-> <<>>, client_text |-> <<>>],
                          segments_with_speakers, speakers_info)
    IN [ success |-> TRUE,
         text |-> Strip(t.full_text),
         dialogue |-> format_dialogue(segments_with_speakers, speakers_info),
         seller_text |-> Strip(t.seller_text),
         client_text |-> Strip(t.client_text),
         speakers |-> speakers_info,
         segments |-> segments_with_speakers,
         language |-> "ru",
         model_used |-> "whisperx-small",
         device |-> "cpu",
         error |-> None ]

\* The dict returned by the outermost handler (lines 261-273).
WXErrorResult(msg) ==
    [ success |-> FALSE,
      text |-> <<>>,
      dialogue |-> <<>>,
      seller_text |-> <<>>,
      client_text |-> <<>>,
      speakers |-> <<>>,
      segments |-> <<>>,
      error |-> Some(msg) ]

(***************************************************************************)
(* The environment: what the external calls can return                     *)
(***************************************************************************)

\* Sequences over S of length 0..n.
SeqsUpTo(S, n) == UNION { [1..k -> S] : k \in 0..n }

\* model.transcribe: up to MaxSegs timed segments, none with a speaker.
TranscribeResults ==
    { [i \in 1..Len(ts) |-> [text |-> ts[i], start |-> 2 * (i - 1), end |-> 2 * i]] :
        ts \in SeqsUpTo(Texts, MaxSegs) }

\* whisperx.align: the same texts with refined timings (a segment may end earlier).
AlignResults(segs) ==
    { [i \in 1..Len(segs) |-> [segs[i] EXCEPT !["end"] = @ - shrink]] : shrink \in {0, 1} }

\* The diarization model: speaker intervals of up to MaxIntervals speakers, one
\* interval a speaker.  The scripts read nothing of an interval, only whether
\* there are any, and the assignment takes nothing but the speakers from them.
DiarizeResults ==
    { [i \in 1..Len(SortedList(S)) |-> [speaker |-> SortedList(S)[i]]] :
        S \in { T \in SUBSET SpeakerIds : Cardinality(T) <= MaxIntervals } }

\* whisperx.assign_word_speakers: a segment gets the speaker of an interval it
\* overlaps, or stays without the key.
AssignResults(segs, intervals) ==
    LET ids == { intervals[i].speaker : i \in 1..Len(intervals) }
        opts(seg) == {seg} \cup { [k \in DOMAIN seg \cup {"speaker"} |->
                                     IF k = "speaker" THEN id ELSE seg[k]] : id \in ids }
    IN { r \in [1..Len(segs) -> UNION { opts(segs[i]) : i \in 1..Len(segs) }] :
           \A i \in 1..Len(segs) : r[i] \in opts(segs[i]) }

\* sys.argv: the script alone; with the audio path; with all arguments and an
\* empty or a real HuggingFace token.
ArgvSet ==
    { <<"script">>,
      <<"script", "a.m4a">>,
      <<"script", "a.m4a", "ru", "small", "">>,
      <<"script", "a.m4a", "ru", "small", "hf_token">> }

(***************************************************************************)
(* The state                                                               *)
(***************************************************************************)
VARIABLES
    variant,                 \* which script runs
    argv,                    \* sys.argv
    pc,                      \* the statement about to run
    tempfile,                \* the temporary copy: "none", "exists", "removed"
    result,                  \* result["segments"] of the pipeline
    diarize_segments,        \* None or Some(intervals)
    speakers_info,           \* WX: the dict speakers_info
    segments_with_speakers,  \* WX: the list segments_with_speakers
    pending,                 \* a "return" or "raise" on its way out of the try block
    ret,                     \* main's variable result: None or Some(dict)
    stdout,                  \* the objects printed to sys.stdout
    stderr,                  \* the number of lines printed to sys.stderr
    exit_code,               \* None while running, then Some(code)
    transcribed,             \* history: what model.transcribe returned
    calls,                   \* history: the external calls made, in order
    raised                   \* history: the calls that raised, <<call, str(e)>>

vars == << variant, argv, pc, tempfile, result, diarize_segments, speakers_info,
           segments_with_speakers, pending, ret, stdout, stderr, exit_code,
           transcribed, calls, raised >>

proc == << variant, argv >>
data == << result, diarize_segments, speakers_info, segments_with_speakers >>
io == << stdout, stderr, exit_code >>
hist == << transcribed, calls, raised >>

Init ==
    /\ variant \in Variants
    /\ argv \in ArgvSet
    /\ pc = "import"
    /\ tempfile = "none"
    /\ result = <<>>
    /\ diarize_segments = None
    /\ speakers_info = <<>>
    /\ segments_with_speakers = <<>>
    /\ pending = None
    /\ ret = None
    /\ stdout = <<>>
    /\ stderr = 0
    /\ exit_code = None
    /\ transcribed = None
    /\ calls = <<>>
    /\ raised = {}

\* hf_token = sys.argv[4] if len(sys.argv) > 4 else None; "if hf_token:" (WX)
HfToken == IF Len(argv) > 4 THEN Some(argv[5]) ELSE None
TokenGiven == HfToken # None /\ HfToken[1] # ""

\* Faulty variant: the narration is printed without file=sys.stderr.
Narrate_toStdout(n) ==
    /\ stderr' = stderr
    /\ stdout' = IF n > 0 THEN Append(stdout, [line |-> "narration"]) ELSE stdout

\* print(..., file=sys.stderr), n times: nothing goes to sys.stdout.
Narrate(n) == /\ stderr' = stderr + n
              /\ stdout' = stdout

\* print(json.dumps(obj)) after n lines of narration.
PrintObject(obj, n) == /\ stderr' = stderr + n
                       /\ stdout' = Append(stdout, obj)

\* A call is made; it returns.
Called(name) == /\ calls' = Append(calls, name)
                /\ raised' = raised

\* An external call is made; it raises an exception with message msg.
Raised(name, msg) == /\ calls' = Append(calls, name)
                     /\ raised' = raised \cup {<<name, msg>>}

\* The exception leaves the inner try block: the finally clause runs next.
RaiseInTry(msg) == /\ pending' = Some([kind |-> "raise", value |-> msg])
                   /\ pc' = "finally"

\* A return statement inside the inner try block: the finally clause runs next.
ReturnInTry(value) == /\ pending' = Some([kind |-> "return", value |-> value])
                      /\ pc' = "finally"

(***************************************************************************)
(* Imports and main                                                        *)
(***************************************************************************)

\* The object main's handler prints (TS lines 255-259, WX lines 307-311).
MainExceptObject(msg) ==
    [ success |-> FALSE,
      error |-> Some(<<"Oshibka", " ", "chteniya", " ", "faila:", " ">> \o msg) ]

\* The object printed when no path was given (TS lines 230-233, WX lines 281-284).
NoPathObject ==
    [ success |-> FALSE,
      error |-> Some(<<"Ne", " ", "ukazan", " ", "put", " ", "k", " ", "audio", " ", "failu">>) ]

\* import whisperx, torch succeed.
ImportOk ==
    /\ pc = "import"
    /\ pc' = "main"
    /\ UNCHANGED << proc, tempfile, data, pending, ret, io, hist >>

\* The imports fail.  WX prints an error object and exits with 1 (lines 18-26);
\* TS has no handler: the interpreter prints the traceback and exits with 1.
ImportFail ==
    /\ pc = "import"
    /\ \E msg \in ExcMsgs :
         IF variant = "WX"
         THEN PrintObject([ success |-> FALSE,
                            error |-> Some(<<"Ne", " ", "ustanovleny", " ",
                                             "zavisimosti:", " ">> \o msg) ], 0)
         ELSE Narrate(1)
    /\ exit_code' = Some(1)
    /\ pc' = "exit"
    /\ UNCHANGED << proc, tempfile, data, pending, ret, hist >>

\* main without a path argument: the error object, exit code 1.
MainNoPath ==
    /\ pc = "main"
    /\ Len(argv) < 2
    /\ PrintObject(NoPathObject, 0)
    /\ exit_code' = Some(1)
    /\ pc' = "exit"
    /\ Called("main")
    /\ UNCHANGED << proc, tempfile, data, pending, ret, transcribed >>

\* main with a path: the arguments are taken, the try block is entered.
MainWithPath ==
    /\ pc = "main"
    /\ Len(argv) >= 2
    /\ Narrate(1)
    /\ pc' = "read"
    /\ Called("main")
    /\ UNCHANGED << proc, tempfile, data, pending, ret, exit_code, transcribed >>

\* open(audio_file_path, 'rb') and f.read() succeed; the pipeline is called.
ReadOk ==
    /\ pc = "read"
    /\ Narrate(1)
    /\ pc' = "mktemp"
    /\ Called("read")
    /\ UNCHANGED << proc, tempfile, data, pending, ret, exit_code, transcribed >>

\* The file cannot be read: main's handler prints and exits with 1.
ReadFail ==
    /\ pc = "read"
    /\ \E msg \in ExcMsgs :
         /\ PrintObject(MainExceptObject(msg), 0)
         /\ Raised("read", msg)
    /\ exit_code' = Some(1)
    /\ pc' = "exit"
    /\ UNCHANGED << proc, tempfile, data, pending, ret, transcribed >>

\* json.dumps(result) succeeds and the line is printed; main returns, exit code 0.
DumpsOk ==
    /\ pc = "dumps"
    /\ PrintObject(ret[1], 0)
    /\ exit_code' = Some(0)
    /\ pc' = "exit"
    /\ Called("dumps")
    /\ UNCHANGED << proc, tempfile, data, pending, ret, transcribed >>

\* json.dumps(result) raises: the same handler as for a read error.  Only the
\* values whisperx supplied can fail to serialise: the numbers and fields of
\* the returned segments (everything else in the dict is built by the script).
DumpsFail ==
    /\ pc = "dumps"
    /\ ret[1]["segments"] # <<>>
    /\ \E msg \in ExcMsgs :
         /\ PrintObject(MainExceptObject(msg), 0)
         /\ Raised("dumps", msg)
    /\ exit_code' = Some(1)
    /\ pc' = "exit"
    /\ UNCHANGED << proc, tempfile, data, pending, ret, transcribed >>

(***************************************************************************)
(* The pipeline: temporary file and transcription stage                    *)
(***************************************************************************)

\* Faulty variant: the handler forgets the message of the exception.
ErrorResult_noMessage(msg) ==
    IF variant = "TS"
    THEN [TSErrorResult(msg) EXCEPT !["error"] = None]
    ELSE [WXErrorResult(msg) EXCEPT !["error"] = None]

\* The dict the outermost handler returns.
ErrorResult(msg) == IF variant = "TS" THEN TSErrorResult(msg) ELSE WXErrorResult(msg)

\* Lines of narration before the temporary file is made.
StartLines == IF variant = "TS" THEN 3 ELSE 2

\* NamedTemporaryFile(suffix='.m4a', delete=False) makes the file.
CreateTempOk ==
    /\ pc = "mktemp"
    /\ tempfile' = "exists"
    /\ Narrate(StartLines)
    /\ pc' = "write"
    /\ Called("NamedTemporaryFile")
    /\ UNCHANGED << proc, data, pending, ret, exit_code, transcribed >>

\* It raises: no file, the outermost handler runs.
CreateTempFail ==
    /\ pc = "mktemp"
    /\ \E msg \in ExcMsgs :
         /\ pending' = Some([kind |-> "raise", value |-> msg])
         /\ Raised("NamedTemporaryFile", msg)
    /\ Narrate(StartLines)
    /\ pc' = "except"
    /\ UNCHANGED << proc, tempfile, data, ret, exit_code, transcribed >>

\* temp_file.write(audio_data) succeeds; the with block closes the file.
WriteOk ==
    /\ pc = "write"
    /\ pc' = "load_model"
    /\ Called("write")
    /\ UNCHANGED << proc, tempfile, data, pending, ret, io, transcribed >>

\* The write raises inside the with block, before the try/finally of the
\* pipeline is entered: the outermost handler runs, the file is left behind.
WriteFail ==
    /\ pc = "write"
    /\ \E msg \in ExcMsgs :
         /\ pending' = Some([kind |-> "raise", value |-> msg])
         /\ Raised("write", msg)
    /\ pc' = "except"
    /\ UNCHANGED << proc, tempfile, data, ret, io, transcribed >>

\* whisperx.load_model returns.
LoadModelOk ==
    /\ pc = "load_model"
    /\ Narrate(IF variant = "TS" THEN 2 ELSE 1)
    /\ pc' = "load_audio"
    /\ Called("load_model")
    /\ UNCHANGED << proc, tempfile, data, pending, ret, exit_code, transcribed >>

\* whisperx.load_audio returns.
LoadAudioOk ==
    /\ pc = "load_audio"
    /\ Narrate(IF variant = "TS" THEN 2 ELSE 1)
    /\ pc' = "transcribe"
    /\ Called("load_audio")
    /\ UNCHANGED << proc, tempfile, data, pending, ret, exit_code, transcribed >>

\* model.transcribe returns the segments.
TranscribeOk ==
    /\ pc = "transcribe"
    /\ \E segs \in TranscribeResults :
         /\ result' = segs
         /\ transcribed' = Some(segs)
    /\ Narrate(IF variant = "TS" THEN 2 ELSE 1)
    /\ pc' = "load_align_model"
    /\ calls' = Append(calls, "transcribe")
    /\ UNCHANGED << proc, tempfile, diarize_segments, speakers_info,
                    segments_with_speakers, pending, ret, exit_code, raised >>

\* load_model, load_audio or model.transcribe raises: out of the try block.
TranscriptionStageFail ==
    /\ pc \in {"load_model", "load_audio", "transcribe"}
    /\ \E msg \in ExcMsgs :
         /\ RaiseInTry(msg)
         /\ Raised(pc, msg)
    /\ Narrate(IF variant = "TS" \/ pc = "load_audio" THEN 1 ELSE 0)
    /\ UNCHANGED << proc, tempfile, data, ret, exit_code, transcribed >>

(***************************************************************************)
(* The pipeline: alignment, diarization, speaker assignment                *)
(***************************************************************************)

\* Faulty variant: the handler of an alignment error tries the alignment again.
OnAlignError_retry(msg) ==
    IF variant = "TS"
    THEN /\ pc' = "load_align_model"
         /\ pending' = pending
    ELSE RaiseInTry(msg)

\* An exception of load_align_model or align.  TS catches it and goes on
\* without alignment (lines 64-66); WX has no handler around the alignment
\* (lines 138-155), the exception leaves the try block.
OnAlignError(msg) ==
    IF variant = "TS"
    THEN /\ pc' = "diar_init"
         /\ pending' = pending
    ELSE RaiseInTry(msg)

\* whisperx.load_align_model returns.
LoadAlignModelOk ==
    /\ pc = "load_align_model"
    /\ Narrate(1)
    /\ pc' = "align"
    /\ Called("load_align_model")
    /\ UNCHANGED << proc, tempfile, data, pending, ret, exit_code, transcribed >>

\* whisperx.align returns the refined segments.  WX then sets speakers_info = {}
\* and segments_with_speakers = result["segments"] (lines 158-159).
AlignOk ==
    /\ pc = "align"
    /\ \E refined \in AlignResults(result) :
         /\ result' = refined
         /\ segments_with_speakers' = IF variant = "WX" THEN refined ELSE <<>>
    /\ Narrate(1)
    /\ pc' = "diar_init"
    /\ Called("align")
    /\ UNCHANGED << proc, tempfile, diarize_segments, speakers_info, pending, ret,
                    exit_code, transcribed >>

\* load_align_model or align raises.
AlignStageFail ==
    /\ pc \in {"load_align_model", "align"}
    /\ \E msg \in ExcMsgs :
         /\ OnAlignError(msg)
         /\ Raised(pc, msg)
    /\ Narrate(IF variant = "TS" THEN (IF pc = "align" THEN 2 ELSE 3)
               ELSE (IF pc = "align" THEN 0 ELSE 1))
    /\ UNCHANGED << proc, tempfile, data, ret, exit_code, transcribed >>

\* Faulty variant: without a token the diarization model is run all the same.
DiarizeSkipped_noTokenTest ==
    /\ pc = "diar_init"
    /\ variant = "WX"
    /\ ~TokenGiven
    /\ speakers_info' = speakers_info
    /\ Narrate(1)
    /\ pc' = "diarize"
    /\ UNCHANGED << proc, tempfile, result, diarize_segments, segments_with_speakers,
                    pending, ret, exit_code, hist >>

\* WX without a token: the diarization is skipped (lines 201-205).
DiarizeSkipped ==
    /\ pc = "diar_init"
    /\ variant = "WX"
    /\ ~TokenGiven
    /\ speakers_info' = NoTokenInfo
    /\ Narrate(1)
    /\ pc' = "assemble"
    /\ UNCHANGED << proc, tempfile, result, diarize_segments, segments_with_speakers,
                    pending, ret, exit_code, hist >>

\* An exception of DiarizationPipeline(...) or diarize_model(audio).  TS returns
\* an error dict (lines 89-104); WX notes the error in speakers_info and goes
\* on to the assembly (lines 207-211).
OnDiarizeError(msg) ==
    IF variant = "TS"
    THEN /\ ReturnInTry(TSDiarizationErrorResult(msg))
         /\ speakers_info' = speakers_info
    ELSE /\ speakers_info' = DiarizeErrorInfo(msg)
         /\ pc' = "assemble"
         /\ pending' = pending

\* An exception of assign_word_speakers.  TS catches it in the inner handler and
\* goes on (lines 85-87); WX has the one handler for the whole block (207-211).
OnAssignError(msg) ==
    IF variant = "TS"
    THEN /\ pc' = "assemble"
         /\ pending' = pending
         /\ speakers_info' = speakers_info
    ELSE /\ speakers_info' = DiarizeErrorInfo(msg)
         /\ pc' = "assemble"
         /\ pending' = pending

\* whisperx.DiarizationPipeline(...) returns (TS always tries; WX with a token).
DiarInitOk ==
    /\ pc = "diar_init"
    /\ variant = "TS" \/ TokenGiven
    /\ Narrate(IF variant = "TS" THEN 3 ELSE 1)
    /\ pc' = "diarize"
    /\ Called("DiarizationPipeline")
    /\ UNCHANGED << proc, tempfile, data, pending, ret, exit_code, transcribed >>

\* diarize_model(audio) returns the intervals.
DiarizeOk ==
    /\ pc = "diarize"
    /\ \E intervals \in DiarizeResults : diarize_segments' = Some(intervals)
    /\ Narrate(IF variant = "TS" THEN 2 ELSE 0)
    /\ pc' = "assign"
    /\ Called("diarize")
    /\ UNCHANGED << proc, tempfile, result, speakers_info, segments_with_speakers,
                    pending, ret, exit_code, transcribed >>

\* DiarizationPipeline(...) or diarize_model(audio) raises.
DiarizeStageFail ==
    /\ pc \in {"diar_init", "diarize"}
    /\ variant = "TS" \/ TokenGiven
    /\ \E msg \in ExcMsgs :
         /\ OnDiarizeError(msg)
         /\ Raised(IF pc = "diar_init" THEN "DiarizationPipeline" ELSE "diarize", msg)
    /\ Narrate(IF variant = "TS" THEN (IF pc = "diarize" THEN 4 ELSE 5)
               ELSE (IF pc = "diarize" THEN 1 ELSE 2))
    /\ UNCHANGED << proc, tempfile, result, diarize_segments, segments_with_speakers,
                    ret, exit_code, transcribed >>

\* assign_word_speakers returns; WX resolves the roles (lines 173-199).
AssignOk ==
    /\ pc = "assign"
    /\ \E assigned \in AssignResults(result, diarize_segments[1]) :
         /\ result' = assigned
         /\ IF variant = "WX"
            THEN /\ speakers_info' = ResolveRoles(assigned)
                 /\ segments_with_speakers' = assigned
            ELSE UNCHANGED << speakers_info, segments_with_speakers >>
    /\ Narrate(IF variant = "TS" THEN 2 ELSE 1)
    /\ pc' = "assemble"
    /\ Called("assign_word_speakers")
    /\ UNCHANGED << proc, tempfile, diarize_segments, pending, ret, exit_code,
                    transcribed >>

\* assign_word_speakers raises; result is not reassigned.
AssignFail ==
    /\ pc = "assign"
    /\ \E msg \in ExcMsgs :
         /\ OnAssignError(msg)
         /\ Raised("assign_word_speakers", msg)
    /\ Narrate(IF variant = "TS" THEN 3 ELSE 1)
    /\ UNCHANGED << proc, tempfile, result, diarize_segments, segments_with_speakers,
                    ret, exit_code, transcribed >>

(***************************************************************************)
(* The pipeline: assembly of the result, finally, the outermost handler    *)
(***************************************************************************)

\* The dict the pipeline returns on its normal path.
AssembledResult ==
    IF variant = "TS"
    THEN TSAssemble(result, diarize_segments)
    ELSE WXAssemble(segments_with_speakers, speakers_info)

\* TS step 7 (lines 106-195); WX steps 5 and 6 (lines 213-252).
Assemble ==
    /\ pc = "assemble"
    /\ ReturnInTry(AssembledResult)
    /\ Narrate(IF variant = "WX" THEN 4
               ELSE IF AssembledResult = TSFallbackResult(result) THEN 3 ELSE 5)
    /\ Called("assemble")
    /\ UNCHANGED << proc, tempfile, data, ret, exit_code, transcribed >>

\* After the finally clause: a pending return reaches main, a pending
\* exception reaches the outermost handler.
AfterFinally ==
    IF pending[1].kind = "return"
    THEN /\ ret' = Some(pending[1].value)
         /\ pending' = None
         /\ pc' = "dumps"
    ELSE /\ ret' = ret
         /\ pending' = pending
         /\ pc' = "except"

\* finally: os.unlink(temp_path) removes the file.
FinallyUnlinkOk ==
    /\ pc = "finally"
    /\ tempfile' = "removed"
    /\ AfterFinally
    /\ Called("unlink")
    /\ UNCHANGED << proc, data, io, transcribed >>

\* finally: os.unlink raises and "except: pass" swallows it; the file stays.
FinallyUnlinkFail ==
    /\ pc = "finally"
    /\ tempfile' = tempfile
    /\ AfterFinally
    /\ Raised("unlink", <<"boom">>)
    /\ UNCHANGED << proc, data, io, transcribed >>

\* except Exception as e: the error dict is returned to main.
OuterExcept ==
    /\ pc = "except"
    /\ ret' = Some(ErrorResult(pending[1].value))
    /\ pending' = None
    /\ Narrate(IF variant = "TS" THEN 2 ELSE 1)
    /\ pc' = "dumps"
    /\ UNCHANGED << proc, tempfile, data, exit_code, hist >>

Next ==
    \/ ImportOk \/ ImportFail
    \/ MainNoPath \/ MainWithPath \/ ReadOk \/ ReadFail
    \/ CreateTempOk \/ CreateTempFail \/ WriteOk \/ WriteFail
    \/ LoadModelOk \/ LoadAudioOk \/ TranscribeOk \/ TranscriptionStageFail
    \/ LoadAlignModelOk \/ AlignOk \/ AlignStageFail
    \/ DiarizeSkipped \/ DiarInitOk \/ DiarizeOk \/ DiarizeStageFail
    \/ AssignOk \/ AssignFail
    \/ Assemble
    \/ FinallyUnlinkOk \/ FinallyUnlinkFail \/ OuterExcept
    \/ DumpsOk \/ DumpsFail

Spec == Init /\ [][Next]_vars

(***************************************************************************)
(* Vocabulary of the properties                                            *)
(***************************************************************************)

RaisedNames == { p[1] : p \in raised }
Count(name) == Len(SelectSeq(calls, LAMBDA c : c = name))

TranscriptionCalls == {"load_model", "load_audio", "transcribe"}
AlignCalls == {"load_align_model", "align"}
DiarizeCalls == {"DiarizationPipeline", "diarize"}
StageCalls == TranscriptionCalls \cup AlignCalls \cup DiarizeCalls
                \cup {"assign_word_speakers", "assemble"}

TranscriptionSucceeded == transcribed # None
TranscriptionFailed == RaisedNames \cap TranscriptionCalls # {}
AlignFailed == RaisedNames \cap AlignCalls # {}
DiarizeFailed == RaisedNames \cap DiarizeCalls # {}
AssignFailed == "assign_word_speakers" \in RaisedNames

\* The pipeline function has returned its dict to main (DONE or FAILED).
Returned == ret # None
MainEntered == Count("main") > 0
Exited == pc = "exit"
PendingRaise == pending # None /\ pending[1].kind = "raise"

\* The run reached the diarization step of WX with no usable token.
DiarizationDisabled ==
    /\ variant = "WX"
    /\ ~TokenGiven
    /\ "assemble" \in { calls[i] : i \in 1..Len(calls) }

\* The segments without the speakers the assignment may have added.
Unassigned(segs) ==
    [i \in 1..Len(segs) |-> [k \in DOMAIN segs[i] \ {"speaker"} |-> segs[i][k]]]

HasText(segs) == \E i \in 1..Len(segs) : Strip(segs[i]["text"]) # <<>>
Tokens(str) == { str[i] : i \in 1..Len(str) }

\* No role-labelled output: no dialogue, no "[speaker]:" or role prefix in the
\* text, no speaker on the returned segments.
NoDialogue(r) == "dialogue" \notin DOMAIN r \/ r["dialogue"] = <<>>
NoSpeakerSplit(r) ==
    /\ "[" \notin Tokens(r["text"])
    /\ \A i \in 1..Len(r["segments"]) : "speaker" \notin DOMAIN r["segments"][i]
NotePopulated(r) ==
    \/ "warning" \in DOMAIN r
    \/ /\ variant = "WX"
       /\ {"note", "error"} \cap DOMAIN r["speakers"] # {}

\* The text of a run of the same script, on the same segments, that does not
\* diarize: WX without a token (lines 201-205, 213-228); TS has no switch, its
\* run without diarization is the fallback branch (lines 175-195).
UndiarizedText(segs) ==
    IF variant = "WX"
    THEN WXAssemble(segs, NoTokenInfo)["text"]
    ELSE TSFallbackResult(segs)["text"]

(***************************************************************************)
(* C1 ... C10                                                              *)
(***************************************************************************)

\* C1: whenever the speech-recognition stage succeeded, the returned result has
\* success = true, and a non-empty text when a transcribed segment has text,
\* whatever alignment, diarization and speaker assignment did.
C1_TextAfterTranscription ==
    (Returned /\ TranscriptionSucceeded) =>
        /\ ret[1]["success"]
        /\ HasText(transcribed[1]) => ret[1]["text"] # <<>>

\* C2 as stated: a failed transcription stage gives success = false, a non-empty
\* error, the error-stage tag "transcription" and no partial output, and no
\* later stage runs.
C2_TranscriptionFailureTagged ==
    /\ TranscriptionFailed => Tokens(calls) \cap (StageCalls \ TranscriptionCalls) = {}
    /\ (Returned /\ TranscriptionFailed) =>
         /\ ~ret[1]["success"]
         /\ ret[1]["error"] # None
         /\ ret[1]["error"][1] # <<>>
         /\ "step" \in DOMAIN ret[1]
         /\ ret[1]["step"] = "transcription"
         /\ ret[1]["text"] = <<>>
         /\ ret[1]["segments"] = <<>>

\* C2 amended: a failed transcription stage gives success = false, error = the
\* message of the exception (empty when the exception has none), no error-stage
\* tag at all, no partial output, and no later stage runs.
C2_TranscriptionFailure ==
    /\ TranscriptionFailed => Tokens(calls) \cap (StageCalls \ TranscriptionCalls) = {}
    /\ (Returned /\ TranscriptionFailed) =>
         /\ ~ret[1]["success"]
         /\ \E p \in raised : p[1] \in TranscriptionCalls /\ ret[1]["error"] = Some(p[2])
         /\ "step" \notin DOMAIN ret[1]
         /\ ret[1]["text"] = <<>>
         /\ ret[1]["segments"] = <<>>

\* A transcription call raised and the pipeline returned its dict.
C2_Witness ==
    /\ Returned
    /\ "transcribe" \in RaisedNames
    /\ tempfile = "removed"

\* C3: after a failure of the alignment stage no exception is on its way out,
\* the segments are the un-refined ones of the transcription, and unless the
\* diarization fails too the run ends with success = true.
C3_AlignmentFailureNonFatal ==
    AlignFailed =>
        /\ ~PendingRaise
        /\ Unassigned(result) = transcribed[1]
        /\ (Returned /\ ~DiarizeFailed) => ret[1]["success"]

\* C4: when the diarization fails or is disabled after a successful
\* transcription, the result has success = true, no role-labelled output and a
\* warning or note.
C4_DiarizationFailureDegrades ==
    (Returned /\ TranscriptionSucceeded /\ (DiarizeFailed \/ DiarizationDisabled)) =>
        /\ ret[1]["success"]
        /\ NoDialogue(ret[1])
        /\ NoSpeakerSplit(ret[1])
        /\ NotePopulated(ret[1])

\* C5: a failure of assign_word_speakers gives success = true, the plain
\* concatenated text, no per-speaker split in text or segments, no dialogue.
C5_AssignFailureDegrades ==
    (Returned /\ AssignFailed) =>
        /\ ret[1]["success"]
        /\ ret[1]["text"] = UndiarizedText(result)
        /\ NoSpeakerSplit(ret[1])
        /\ NoDialogue(ret[1])

\* C6: the temporary file exists before the transcription stage starts and no
\* longer exists once the pipeline has returned.
C6_TempFileRemoved ==
    /\ Tokens(calls) \cap TranscriptionCalls # {} => tempfile # "none"
    /\ Returned => tempfile # "exists"

\* C7: no stage call is made twice in a run (so none is retried after it
\* raised), and a run that reaches the assembly has made each call before it
\* exactly once.
C7_StagesAtMostOnce ==
    /\ \A name \in StageCalls : Count(name) <= 1
    /\ TranscriptionSucceeded => \A name \in TranscriptionCalls : Count(name) = 1
    /\ Count("assemble") = 1 =>
         /\ Count("load_align_model") = 1
         /\ ~AlignFailed => Count("align") = 1
         /\ (variant = "TS" \/ TokenGiven) => Count("DiarizationPipeline") = 1
         /\ variant = "TS" => Count("diarize") = 1 /\ Count("assign_word_speakers") = 1
         /\ (variant = "WX" /\ TokenGiven /\ ~DiarizeFailed) =>
                Count("diarize") = 1 /\ Count("assign_word_speakers") = 1

\* The alignment stage failed, the later stages each ran, the pipeline returned.
C7_Witness ==
    /\ Returned
    /\ AlignFailed
    /\ AssignFailed
    /\ Count("assemble") = 1

\* C8: a run of main never has more than one object on stdout, has exactly one
\* when the process exits, and everything on stdout is a result object: the
\* narration is on stderr only.
C8_ExactlyOneObject ==
    MainEntered =>
        /\ Len(stdout) <= 1
        /\ Exited => Len(stdout) = 1
        /\ \A i \in 1..Len(stdout) : "success" \in DOMAIN stdout[i]
        /\ stderr > 0 \/ Len(argv) < 2

\* json.dumps raised on the result of a finished pipeline and the process exited.
C8_Witness ==
    /\ Exited
    /\ "dumps" \in RaisedNames
    /\ Count("assemble") = 1
    /\ Len(stdout) = 1
    /\ stderr > 0

\* C9: main exits with 1 exactly when no path was given or the file could not
\* be read, and then prints success = false with a non-empty error.
C9_ExitCodeOneIffInputError ==
    (MainEntered /\ Exited) =>
        /\ exit_code = Some(1) <=> (Len(argv) < 2 \/ "read" \in RaisedNames)
        /\ exit_code = Some(1) =>
             /\ ~stdout[1]["success"]
             /\ stdout[1]["error"] # None
             /\ stdout[1]["error"][1] # <<>>

\* C10: a run whose diarization or speaker assignment failed returns the text
\* that a run without diarization returns on the same segments.
C10_SameTextAsUndiarized ==
    (Returned /\ TranscriptionSucceeded /\ (DiarizeFailed \/ AssignFailed)) =>
        ret[1]["text"] = UndiarizedText(result)

(***************************************************************************)
(* The result-processing functions on their own                            *)
(*                                                                         *)
(* FnSpec runs the segment merger of TS, and the role resolution and the   *)
(* assembly with format_dialogue of WX, on every list of up to MaxFnSegs   *)
(* segments: any text of Texts, any of three speakers or none, back to     *)
(* back or with silence between the segments.                              *)
(***************************************************************************)

MaxFnSegs == 3

FnSpeakerIds == SpeakerIds \cup {"SPEAKER_02"}

\* Seconds of silence between two segments.
FnGaps == {0, 5}

\* result["segments"] after the assignment: text, start, end and, when the
\* segment was given one, speaker.
FnSegments ==
    { [i \in 1..Len(ws) |->
         LET s == (i - 1) * (1 + g)
         IN IF ws[i].speaker = None
            THEN [text |-> ws[i].text, start |-> s, end |-> s + 1]
            ELSE [text |-> ws[i].text, start |-> s, end |-> s + 1,
                  speaker |-> ws[i].speaker[1]]] :
        ws \in SeqsUpTo([text : Texts,
                         speaker : {None} \cup { Some(id) : id \in FnSpeakerIds }],
                        MaxFnSegs),
        g \in FnGaps }

FnInit ==
    /\ variant \in Variants
    /\ argv = <<"script", "a.m4a", "ru", "small", "hf_token">>
    /\ pc = "fn_input"
    /\ tempfile = "none"
    /\ result \in FnSegments
    /\ diarize_segments = None
    /\ speakers_info = <<>>
    /\ segments_with_speakers = <<>>
    /\ pending = None
    /\ ret = None
    /\ stdout = <<>>
    /\ stderr = 0
    /\ exit_code = None
    /\ transcribed = None
    /\ calls = <<>>
    /\ raised = {}

\* TS, step 7 with diarization: the merge of the segments into utterances.
FnMerge ==
    /\ pc = "fn_input"
    /\ variant = "TS"
    /\ ret' = Some(TSDiarizedResult(result))
    /\ pc' = "fn_output"
    /\ UNCHANGED << proc, tempfile, data, pending, io, hist >>

\* WX, lines 170-196: the roles from the speakers seen on the segments.
FnResolveRoles ==
    /\ pc = "fn_input"
    /\ variant = "WX"
    /\ segments_with_speakers' = result
    /\ speakers_info' = ResolveRoles(result)
    /\ pc' = "fn_roles"
    /\ UNCHANGED << proc, tempfile, result, diarize_segments, pending, ret, io, hist >>

\* WX, lines 201-205: no diarization, the segments as they are.
FnNoToken ==
    /\ pc = "fn_input"
    /\ variant = "WX"
    /\ segments_with_speakers' = result
    /\ speakers_info' = NoTokenInfo
    /\ pc' = "fn_notoken"
    /\ UNCHANGED << proc, tempfile, result, diarize_segments, pending, ret, io, hist >>

\* WX, steps 5 and 6: the texts and format_dialogue.
FnAssemble ==
    /\ pc \in {"fn_roles", "fn_notoken"}
    /\ ret' = Some(WXAssemble(segments_with_speakers, speakers_info))
    /\ pc' = "fn_output"
    /\ UNCHANGED << proc, tempfile, data, pending, io, hist >>

FnNext == FnMerge \/ FnResolveRoles \/ FnNoToken \/ FnAssemble

FnSpec == FnInit /\ [][FnNext]_vars

\* The non-blank tokens of the recogniser's texts.
WordTokens == UNION { Tokens(t) : t \in Texts } \ Whitespace
IsWord(t) == t \in WordTokens

\* A string without its blanks, separators and labels: its words in order.
Words(str) == SelectSeq(str, IsWord)

IsBlank(seg) == Strip(seg["text"]) = <<>>
IsNonBlank(seg) == ~IsBlank(seg)
NonBlank(segs) == SelectSeq(segs, IsNonBlank)

FnMerged == pc = "fn_output" /\ variant = "TS"
FnFormatted == pc = "fn_output" /\ variant = "WX"

(***************************************************************************)
(* C11 ... C20                                                             *)
(***************************************************************************)

\* C11: the merge pass neither drops nor duplicates nor reorders text: the words
\* of the output utterances, in order, are the words of the input segments, in
\* order, for the merger of TS and for the run-merging of format_dialogue.
C11_TextPreserved ==
    /\ FnMerged => Words(ConcatTexts(ret[1]["segments"])) = Words(ConcatTexts(result))
    /\ (FnFormatted /\ DOMAIN speakers_info # {}) =>
           Words(ret[1]["dialogue"]) = Words(ConcatTexts(result))

\* Three segments became two utterances, one of them joined from two segments.
C11_Witness ==
    /\ FnMerged
    /\ Len(result) = 3
    /\ Len(ret[1]["segments"]) = 2
    /\ \E i \in 1..2 : ret[1]["segments"][i]["text"] = <<"a", " ", "b">>


\* C12: the segment merger is idempotent: merging its own output changes
\* nothing, and no two consecutive output utterances have the same speaker,
\* whatever the input (segments with blank text included).
C12_MergerIdempotent ==
    FnMerged =>
        LET out == ret[1]["segments"]
        IN /\ \A i \in 1..(Len(out) - 1) : out[i]["speaker"] # out[i + 1]["speaker"]
           /\ MergeSegments(out).segments_with_speakers = out

\* The texts of a run joined by single spaces.
RECURSIVE JoinSpaces(_)
JoinSpaces(segs) ==
    IF segs = <<>> THEN <<>>
    ELSE IF Len(segs) = 1 THEN Strip(segs[1]["text"])
    ELSE Strip(segs[1]["text"]) \o <<" ">> \o JoinSpaces(Tail(segs))

\* The utterance of one run of segments of a speaker: nothing when the run has
\* no segment with text, else the span and the texts of those that have.
RunUtterance(run) ==
    LET spoken == NonBlank(run)
    IN IF spoken = <<>> THEN <<>>
       ELSE << [ speaker |-> TSSpeaker(run[1]),
                 text |-> JoinSpaces(spoken),
                 start |-> spoken[1]["start"],
                 end |-> spoken[Len(spoken)]["end"] ] >>

\* The utterances of the maximal runs of consecutive same-speaker segments;
\* run is the run being gathered.
RECURSIVE MaximalRuns(_, _)
MaximalRuns(run, segs) ==
    IF segs = <<>> THEN (IF run = <<>> THEN <<>> ELSE RunUtterance(run))
    ELSE IF run = <<>> \/ TSSpeaker(run[1]) = TSSpeaker(Head(segs))
    THEN MaximalRuns(Append(run, Head(segs)), Tail(segs))
    ELSE RunUtterance(run) \o MaximalRuns(<<Head(segs)>>, Tail(segs))

\* C13: each output utterance covers one maximal run of consecutive
\* same-speaker segments: it starts with the first and ends with the last
\* segment of the run that has text, and its text is their trimmed texts joined
\* by single spaces; the silence between segments plays no part.
C13_UtterancePerRun ==
    FnMerged => ret[1]["segments"] = MaximalRuns(<<>>, result)

\* C14: a segment whose trimmed text is empty has no effect on the merging:
\* the output is the output on the input without these segments, in the merger
\* of TS (utterances, speakers, text) and in format_dialogue.
C14_BlankSegmentsIgnored ==
    /\ FnMerged => ret[1] = TSDiarizedResult(NonBlank(result))
    /\ FnFormatted =>
           ret[1]["dialogue"] = format_dialogue(NonBlank(segments_with_speakers),
                                                speakers_info)


\* The roles have been resolved from the speakers on the segments.
FnResolved == pc = "fn_roles"

\* C15: role resolution is total and deterministic: for every non-empty set of
\* observed speaker ids the speakers info names one seller from the set, names a
\* client (another id of the set) exactly when there are two or more ids, counts
\* the distinct ids in total_speakers and lists them sorted in all_speakers.
C15_RolesTotal ==
    (FnResolved /\ ObservedSpeakers(result) # {}) =>
        LET ids == ObservedSpeakers(result)
            info == speakers_info
        IN /\ {"seller", "client", "total_speakers", "all_speakers"} \subseteq DOMAIN info
           /\ info["seller"] # None
           /\ info["seller"][1] \in ids
           /\ info["client"] # None <=> Cardinality(ids) >= 2
           /\ info["client"] # None => info["client"][1] \in ids \ {info["seller"][1]}
           /\ info["total_speakers"] = Cardinality(ids)
           /\ Len(info["all_speakers"]) = Cardinality(ids)
           /\ Tokens(info["all_speakers"]) = ids
           /\ \A i, j \in 1..Len(info["all_speakers"]) :
                  i < j => Rank(info["all_speakers"][i]) < Rank(info["all_speakers"][j])

\* Three speakers were observed, the last in the sort order on the first segment.
C15_Witness ==
    /\ FnResolved
    /\ Cardinality(ObservedSpeakers(result)) = 3
    /\ result[1]["speaker"] = "SPEAKER_02"
    /\ speakers_info["total_speakers"] = 3

\* The distinct speakers of the segments in the order of their first segment.
RECURSIVE AppearanceOrder(_)
AppearanceOrder(segs) ==
    IF segs = <<>> THEN <<>>
    ELSE LET before == AppearanceOrder(SubSeq(segs, 1, Len(segs) - 1))
             last == segs[Len(segs)]
         IN IF "speaker" \notin DOMAIN last \/ last["speaker"] \in Tokens(before)
            THEN before
            ELSE Append(before, last["speaker"])

\* C16: the roles follow first appearance, not the order of the ids: the seller
\* is the speaker of the first segment that has a speaker, the client the next
\* other speaker in segment order.
C16_RolesByFirstAppearance ==
    FnResolved =>
        LET order == AppearanceOrder(result)
        IN /\ Len(order) >= 1 => Get(speakers_info, "seller") = Some(order[1])
           /\ Len(order) >= 2 => Get(speakers_info, "client") = Some(order[2])


\* assign_word_speakers was called and returned (so the diarization succeeded).
AssignSucceeded == Count("assign_word_speakers") = 1 /\ ~AssignFailed

\* C17: when diarization and assignment succeed and exactly one speaker id is
\* on the segments, the speakers info has total_speakers = 1, that id as the
\* seller, a null client and a note, and this is the info the result carries.
C17_SingleSpeaker ==
    (variant = "WX" /\ AssignSucceeded /\ Cardinality(ObservedSpeakers(result)) = 1) =>
        /\ {"seller", "client", "total_speakers", "note"} \subseteq DOMAIN speakers_info
        /\ speakers_info["total_speakers"] = 1
        /\ speakers_info["client"] = None
        /\ speakers_info["seller"] # None
        /\ {speakers_info["seller"][1]} = ObservedSpeakers(result)
        /\ speakers_info["note"] # <<>>
        /\ (Returned /\ ret[1]["success"]) => ret[1]["speakers"] = speakers_info

\* The pipeline returned after an assignment that gave one of two segments a
\* speaker, out of two diarization intervals.
C17_Witness ==
    /\ variant = "WX"
    /\ Returned
    /\ ret[1]["success"]
    /\ AssignSucceeded
    /\ Len(result) = 2
    /\ Len(diarize_segments[1]) = 2
    /\ Cardinality(ObservedSpeakers(result)) = 1

\* C18: when diarization and assignment complete without error but no speaker
\* id is on any segment, the speakers info carries an explanatory note and
\* names no roles.
C18_NoSpeakersNote ==
    (variant = "WX" /\ AssignSucceeded /\ ObservedSpeakers(result) = {}) =>
        /\ "note" \in DOMAIN speakers_info
        /\ Get(speakers_info, "seller") = None
        /\ Get(speakers_info, "client") = None

\* C19: format_dialogue labels an utterance with the seller role exactly for a
\* set speaker equal to the seller id, with the client role for one equal to the
\* client id, with "Speaker <id>" for any other set speaker, and with "Unknown"
\* exactly when the speaker is unset, also when the seller or client id of the
\* speakers info is null or missing.
C19_RoleLabels ==
    (FnFormatted /\ DOMAIN speakers_info # {}) =>
        LET segs == NonBlank(segments_with_speakers)
            spoken == { i \in 1..Len(segs) : "speaker" \in DOMAIN segs[i] }
            seller_id == Get(speakers_info, "seller")
            client_id == Get(speakers_info, "client")
            labels == Tokens(ret[1]["dialogue"])
        IN /\ "Prodavec" \in labels <=>
                 \E i \in spoken : SegSpeaker(segs[i]) = seller_id
           /\ "Klient" \in labels <=>
                 \E i \in spoken : SegSpeaker(segs[i]) # seller_id
                                   /\ SegSpeaker(segs[i]) = client_id
           /\ "Spiker" \in labels <=>
                 \E i \in spoken : SegSpeaker(segs[i]) \notin {seller_id, client_id}
           /\ "Neizvestnyj" \in labels <=> spoken # 1..Len(segs)

\* The diarization returned, with no interval at all.
ZeroIntervals == diarize_segments = Some(<<>>)

\* C20: when the diarization succeeds with zero intervals, every segment stays
\* without a speaker and the result has success = true, its text populated, no
\* dialogue and no role-labelled output.
C20_ZeroIntervals ==
    (Returned /\ ZeroIntervals) =>
        /\ ObservedSpeakers(result) = {}
        /\ ret[1]["success"]
        /\ HasText(transcribed[1]) => ret[1]["text"] # <<>>
        /\ NoDialogue(ret[1])
        /\ NoSpeakerSplit(ret[1])


(***************************************************************************)
(* C21, C22                                                                *)
(***************************************************************************)

\* The place of a call in the order of the program text.
ProgramOrder ==
    [ main |-> 0, read |-> 1, NamedTemporaryFile |-> 2, write |-> 3,
      load_model |-> 4, load_audio |-> 5, transcribe |-> 6,
      load_align_model |-> 7, align |-> 8,
      DiarizationPipeline |-> 9, diarize |-> 10, assign_word_speakers |-> 11,
      assemble |-> 12, unlink |-> 13, dumps |-> 14 ]
StageOrder(name) == ProgramOrder[name]

\* C21: the stages run strictly in the order transcribe, align, diarize, assign
\* speakers, merge/format, output: the diarization is invoked only after the
\* transcription succeeded, the speaker assignment only after the diarization
\* of the same run returned, the output comes last, and without a token WX
\* invokes neither the diarization nor the speaker assignment.
C21_StageOrder ==
    LET called == Tokens(calls)
    IN /\ \A i \in 1..(Len(calls) - 1) :
              StageOrder(calls[i]) < StageOrder(calls[i + 1])
       /\ called \cap DiarizeCalls # {} =>
              TranscriptionSucceeded /\ ~TranscriptionFailed
       /\ "assign_word_speakers" \in called =>
              /\ "diarize" \in called
              /\ ~DiarizeFailed
              /\ diarize_segments # None
       /\ stdout # <<>> => Exited
       /\ (variant = "WX" /\ ~TokenGiven) =>
              called \cap (DiarizeCalls \cup {"assign_word_speakers"}) = {}

\* A run of WX with a token made every call of the pipeline and printed its result.
C21_Witness ==
    /\ variant = "WX"
    /\ TokenGiven
    /\ Exited
    /\ stdout # <<>>
    /\ Tokens(calls) = StageCalls \cup {"main", "read", "NamedTemporaryFile", "write",
                                        "unlink", "dumps"}


\* The words of the segments that carry the speaker id; none for no id.
WordsOfSpeaker(segs, id) ==
    IF id = None THEN <<>>
    ELSE Words(ConcatTexts(SelectSeq(segs, LAMBDA seg : SegSpeaker(seg) = id)))

\* C22: in every result of transcribe_with_speaker_diarization seller_text is
\* the text of the segments whose speaker is set and is the resolved seller id,
\* client_text that of the segments of the resolved client id, and each is
\* empty when that role was not resolved.
C22_RoleTexts ==
    (variant = "WX" /\ Returned /\ ret[1]["success"]) =>
        LET r == ret[1]
            seller_id == Get(r["speakers"], "seller")
            client_id == Get(r["speakers"], "client")
        IN /\ Words(r["seller_text"]) = WordsOfSpeaker(r["segments"], seller_id)
           /\ Words(r["client_text"]) = WordsOfSpeaker(r["segments"], client_id)
           /\ seller_id # None => seller_id # client_id

====
